---- MODULE Spec2Model ----
(***************************************************************************)
(* A model of the request / poll / collect / normalize pipeline of         *)
(* instruments/python/common.py: m2m_request, list_files, process_file,    *)
(* m2m_collect and update_dataset.                                         *)
(*                                                                         *)
(* Python strings are sequences of tokens (a token is a literal of the     *)
(* source or an opaque caller-supplied value); an optional argument is     *)
(* the empty tuple (None) or a one-element tuple holding the value.        *)
(***************************************************************************)
EXTENDS Integers, Sequences, FiniteSets, TLC

\* ------------------------------------------------------------------------
\* Python values
\* ------------------------------------------------------------------------
None == << >>

Some(v) == << v >>

\* Python truthiness of an optional string: None and '' are both false.
Truthy(opt) == opt # None /\ opt[1] # << >>

\* s contains p as a contiguous run of tokens
Contains(s, p) ==
    \E k \in 0..(Len(s) - Len(p)) : SubSeq(s, k + 1, k + Len(p)) = p

EndsWith(s, p) ==
    Len(s) >= Len(p) /\ SubSeq(s, Len(s) - Len(p) + 1, Len(s)) = p

\* ------------------------------------------------------------------------
\* m2m_request: constants
\* ------------------------------------------------------------------------
\* range(200) and tqdm(total=200)
MaxAttempts == 200

\* time.sleep(3)
SleepSeconds == 3

\* the divisor of elapsed = (i * 3) / 60
SecondsPerMinute == 60

\* '&format=application/netcdf'
FormatSelector == << "&", "format=application/netcdf" >>

\* caller-supplied date/time strings (the empty string included)
DateStrings == { << >>, << "2019-01-01T00:00:00.000Z" >>, << "0" >> }

OptionalDates == { None } \cup { Some(d) : d \in DateStrings }

\* r.json() of a successful submission: allURLs[0] is the THREDDS catalog,
\* allURLs[1] the location of status.txt (Python indices)
JobDescriptor == [ allURLs |-> << << "catalog-url" >>, << "async-url" >> >> ]

VARIABLES
    pc,          \* position in the function being run
    start,       \* m2m_request: argument start
    stop,        \* m2m_request: argument stop
    options,     \* m2m_request: local options (the query string)
    data,        \* m2m_request: local data (None until r.json() is assigned)
    check_complete, \* m2m_request: local check_complete
    i,           \* m2m_request: loop variable of range(200)
    elapsed,     \* m2m_request: local elapsed, None while unbound
    bar,         \* m2m_request: tqdm bar.n
    outcome,     \* how the call ended: "running", "returned", "raised"
    result,      \* the returned value when outcome = "returned"
    readyAt,     \* server: number of the first status request answered OK
    nchecks,     \* observed: status requests issued
    nsleeps,     \* observed: time.sleep(3) calls made
    lastEvent,   \* observed: the last of "none", "submit", "check", "sleep"
    submitStatus, \* observed: "none", then "ok" or "error" for the submission
    tag,         \* m2m_collect / list_files: argument tag (the pattern)
    page,        \* the anchors of the catalog page, in page order
    files,       \* m2m_collect: local files
    frames,      \* m2m_collect: the list frames, as far as it is built
    m2m,         \* m2m_collect: local m2m, None until assigned
    rawCounts,   \* observed: the number of rows of each file opened
    nfailed,     \* observed: files that could not be loaded or normalized
    callerDs,    \* update_dataset: the Dataset object the caller passed in
    callerBefore, \* observed: the value of that object when the call began
    ds,          \* update_dataset: the object ds is rebound to at line 355
    depth,       \* update_dataset: argument depth
    lat,         \* update_dataset: local lat, None until assigned
    lon,         \* update_dataset: local lon, None until assigned
    geo_coords,  \* update_dataset: local geo_coords, None until assigned
    atMerge,     \* observed: the value of ds when line 413 is reached
    reordered,   \* the per-file datasets of frames, processed in another order
    m2mReordered \* what lines 285-286 make of reordered, None until computed

requestVars == << start, stop, options, data, check_complete, i, elapsed, bar,
                  readyAt, nchecks, nsleeps, lastEvent, submitStatus >>

collectVars == << tag, page, files, frames, m2m, rawCounts, nfailed >>

updateVars == << callerDs, callerBefore, ds, depth, lat, lon, geo_coords, atMerge >>

orderVars == << reordered, m2mReordered >>

vars == << pc, outcome, result, requestVars, collectVars, updateVars, orderVars >>

\* what m2m_request leaves alone
notRequest == << collectVars, updateVars, orderVars >>

\* what m2m_collect and list_files leave alone
notCollect == << requestVars, updateVars, orderVars >>

\* what update_dataset leaves alone
notUpdate == << requestVars, collectVars, orderVars >>

\* ------------------------------------------------------------------------
\* m2m_request
\* ------------------------------------------------------------------------
BeginDate(s) ==
    IF Truthy(s) THEN << "?", "beginDT=" >> \o s[1]
                 ELSE << "?", "beginDT=", "0" >>

\* an end date that emits the parameter whether or not stop was given
EndDateAlways(s) == << "&", "endDT=" >> \o (IF s = None THEN << >> ELSE s[1])

EndDate(s) ==
    IF Truthy(s) THEN << "&", "endDT=" >> \o s[1]
                 ELSE << >>

Options(s, e) == BeginDate(s) \o EndDate(e) \o FormatSelector

\* the value assigned to elapsed after the sleep of iteration n: (n * 3) / 60
Elapsed(n) == [ num |-> n * SleepSeconds, den |-> SecondsPerMinute ]

\* the answer of the status endpoint to its n-th request
StatusOk(n) == n >= readyAt

\* m2m_collect is not running
CollectIdle ==
    /\ tag = << >>
    /\ page = << >>
    /\ files = << >>
    /\ frames = << >>
    /\ m2m = None
    /\ rawCounts = << >>
    /\ nfailed = 0

\* m2m_request is not running
RequestIdle ==
    /\ start = None
    /\ stop = None
    /\ options = << >>
    /\ data = None
    /\ check_complete = << >>
    /\ i = 0
    /\ elapsed = None
    /\ bar = 0
    /\ readyAt = 1
    /\ nchecks = 0
    /\ nsleeps = 0
    /\ lastEvent = "none"
    /\ submitStatus = "none"

\* no second processing order is being compared
OrderIdle ==
    /\ reordered = << >>
    /\ m2mReordered = None

\* update_dataset is not running
UpdateIdle ==
    /\ callerDs = None
    /\ callerBefore = None
    /\ ds = None
    /\ depth = 0
    /\ lat = None
    /\ lon = None
    /\ geo_coords = None
    /\ atMerge = None

RequestInit ==
    /\ CollectIdle
    /\ UpdateIdle
    /\ OrderIdle
    /\ pc = "m2m_request"
    /\ start \in OptionalDates
    /\ stop \in OptionalDates
    /\ options = << >>
    /\ data = None
    /\ check_complete = << >>
    /\ i = 0
    /\ elapsed = None
    /\ bar = 0
    /\ outcome = "running"
    /\ result = None
    /\ readyAt \in 1..(MaxAttempts + 1)
    /\ nchecks = 0
    /\ nsleeps = 0
    /\ lastEvent = "none"
    /\ submitStatus = "none"

\* a submission that reads r.json() whatever the status code was
SubmitIgnoresStatus ==
    /\ UNCHANGED notRequest
    /\ pc = "m2m_request"
    /\ options' = Options(start, stop)
    /\ lastEvent' = "submit"
    /\ \E ok \in BOOLEAN : submitStatus' = IF ok THEN "ok" ELSE "error"
    /\ data' = Some(JobDescriptor)
    /\ check_complete' = JobDescriptor.allURLs[2] \o << "/status.txt" >>
    /\ pc' = "check"
    /\ UNCHANGED << outcome, result >>
    /\ UNCHANGED << start, stop, i, elapsed, bar, readyAt, nchecks, nsleeps >>

\* lines 232-253: build the query, submit it, return None on a non-success
\* response, otherwise keep the job descriptor and enter the loop
Submit ==
    /\ UNCHANGED notRequest
    /\ pc = "m2m_request"
    /\ options' = Options(start, stop)
    /\ lastEvent' = "submit"
    /\ \E ok \in BOOLEAN :
          /\ submitStatus' = IF ok THEN "ok" ELSE "error"
          /\ IF ok
             THEN /\ data' = Some(JobDescriptor)
                  /\ check_complete' = JobDescriptor.allURLs[2] \o << "/status.txt" >>
                  /\ pc' = "check"
                  /\ UNCHANGED << outcome, result >>
             ELSE /\ pc' = "done"
                  /\ outcome' = "returned"
                  /\ result' = None
                  /\ UNCHANGED << data, check_complete >>
    /\ UNCHANGED << start, stop, i, elapsed, bar, readyAt, nchecks, nsleeps >>

\* a loop body that sleeps and retries whatever the status response was
SuccessThenSleep(ok) == "sleep"

\* where the loop body goes after the status response
AfterCheck(ok) == IF ok THEN "report" ELSE "sleep"

\* lines 256-261: one status request, the bar update and the test of the
\* response
StatusCheck ==
    /\ UNCHANGED notRequest
    /\ pc = "check"
    /\ nchecks' = nchecks + 1
    /\ lastEvent' = "check"
    /\ bar' = IF StatusOk(nchecks + 1) THEN MaxAttempts ELSE bar + 1
    /\ pc' = AfterCheck(StatusOk(nchecks + 1))
    /\ UNCHANGED << start, stop, options, data, check_complete, i, elapsed,
                    readyAt, nsleeps, submitStatus, outcome, result >>

\* lines 262-263 and 268: the completion message reads elapsed; with elapsed
\* unbound the read raises UnboundLocalError, otherwise the loop is left and
\* data is returned
Report ==
    /\ UNCHANGED notRequest
    /\ pc = "report"
    /\ pc' = "done"
    /\ IF elapsed = None
       THEN /\ outcome' = "raised"
            /\ UNCHANGED result
       ELSE /\ outcome' = "returned"
            /\ result' = data
    /\ UNCHANGED requestVars

\* the loop position after iteration n
NextIteration(n) == IF n + 1 < MaxAttempts THEN "check" ELSE "exhausted"

\* lines 264-266, then the next value of range(200)
Sleep ==
    /\ UNCHANGED notRequest
    /\ pc = "sleep"
    /\ nsleeps' = nsleeps + 1
    /\ lastEvent' = "sleep"
    /\ elapsed' = Some(Elapsed(i))
    /\ i' = IF i + 1 < MaxAttempts THEN i + 1 ELSE i
    /\ pc' = NextIteration(i)
    /\ UNCHANGED << start, stop, options, data, check_complete, bar, readyAt,
                    nchecks, submitStatus, outcome, result >>

\* line 268 reached with range(200) used up: the with block is left and data
\* is returned
LoopExit ==
    /\ UNCHANGED notRequest
    /\ pc = "exhausted"
    /\ pc' = "done"
    /\ outcome' = "returned"
    /\ result' = data
    /\ UNCHANGED requestVars

RequestNext == Submit \/ StatusCheck \/ Report \/ Sleep \/ LoopExit

RequestSpec == RequestInit /\ [][RequestNext]_vars

\* ------------------------------------------------------------------------
\* Properties of m2m_request
\* ------------------------------------------------------------------------
\* the loop has used up range(200) without one OK status response
BudgetExhausted ==
    /\ pc = "done"
    /\ submitStatus = "ok"
    /\ nchecks = MaxAttempts
    /\ readyAt > MaxAttempts

\* C1: when none of the 200 status checks succeeds, m2m_request ends in a
\* failure outcome and does not return the job descriptor as if the export
\* were ready.
C1_ExhaustionIsFailure ==
    BudgetExhausted => ~(outcome = "returned" /\ result = Some(JobDescriptor))

\* the call has ended after the status endpoint first answered OK on its
\* readyAt-th request, readyAt within the budget
PolledToSuccess ==
    /\ pc \in {"report", "done"}
    /\ submitStatus = "ok"
    /\ readyAt <= MaxAttempts

\* C2: when the status endpoint first returns success on the k-th check
\* (k = readyAt in 1..200), m2m_request issues exactly k status checks and
\* k-1 sleeps, a sleep between each two consecutive checks and none after the
\* successful one; no run issues more than 200 status checks.
C2_ChecksAndSleeps ==
    /\ nchecks <= MaxAttempts
    /\ lastEvent = "check" => nsleeps = nchecks - 1
    /\ lastEvent = "sleep" => nsleeps = nchecks
    /\ PolledToSuccess =>
          /\ nchecks = readyAt
          /\ nsleeps = readyAt - 1
          /\ lastEvent = "check"

\* success on the 5th check: 5 checks and 4 sleeps have been made
C2_Witness ==
    /\ pc = "done"
    /\ readyAt = 5
    /\ nchecks = 5
    /\ nsleeps = 4
    /\ outcome = "returned"

\* C12: for every k in 1..200, k = 1 included, when the k-th status check
\* is the first to succeed, m2m_request completes normally and returns the
\* job descriptor of the submission response, and what it reads to report
\* completion has been assigned by then.
C12_SuccessReturnsDescriptor ==
    /\ pc = "report" => elapsed # None
    /\ (pc = "done" /\ PolledToSuccess) =>
          /\ outcome = "returned"
          /\ result = Some(JobDescriptor)

\* C3: a non-success response to the submission makes m2m_request return
\* None with no status check and no sleep; a status check is only issued
\* after a successful submission response.
C3_FailedSubmission ==
    /\ submitStatus = "error" =>
          /\ pc = "done"
          /\ outcome = "returned"
          /\ result = None
          /\ nchecks = 0
          /\ nsleeps = 0
    /\ (nchecks > 0 \/ nsleeps > 0) => submitStatus = "ok"

C3_Witness ==
    /\ submitStatus = "error"
    /\ pc = "done"
    /\ result = None

\* a start or stop counts as supplied when it is a non-empty string
Supplied(opt) == opt # None /\ Len(opt[1]) > 0

\* C4: the query string holds beginDT=0 when no start is supplied and
\* beginDT=<start> otherwise, holds no endDT parameter when no stop is
\* supplied and endDT=<stop> otherwise, and always ends with the format
\* selector.
C4_QueryString ==
    submitStatus # "none" =>
        /\ IF Supplied(start)
           THEN Contains(options, << "beginDT=" >> \o start[1] \o << "&" >>)
           ELSE Contains(options, << "beginDT=", "0", "&" >>)
        /\ IF Supplied(stop)
           THEN Contains(options, << "&", "endDT=" >> \o stop[1] \o << "&" >>)
           ELSE ~Contains(options, << "endDT=" >>)
        /\ EndsWith(options, FormatSelector)
        /\ Len(SelectSeq(options, LAMBDA t : t = "beginDT=")) = 1

\* neither start nor stop supplied: ?beginDT=0&format=application/netcdf
C4_Witness ==
    /\ submitStatus # "none"
    /\ start = None
    /\ stop = None
    /\ options = << "?", "beginDT=", "0" >> \o FormatSelector


\* ------------------------------------------------------------------------
\* Datasets
\* ------------------------------------------------------------------------
\* An xarray Dataset is a record: dim, the dimension the observations run
\* along; variables, the names in ds.variables (coordinates included); rows,
\* the observations in storage order, each with its time and the file it
\* came from; attrs, the global attributes.

\* bounds of the model
MaxLinks == 2

MaxRows == 2

MaxTime == 1

\* the names dropped at line 322
Bookkeeping ==
    { "obs", "id", "driver_timestamp", "ingestion_timestamp", "port_timestamp",
      "preferred_timestamp" }

\* the global attributes deleted at lines 330-333
UnusedAttrs ==
    { "DODS.strlen", "DODS.dimName", "DODS_EXTRA.Unlimited_Dimension",
      "_NCProperties", "feature_Type" }

AttrSet(a, k, v) == [ x \in (DOMAIN a) \cup {k} |-> IF x = k THEN v ELSE a[x] ]

AttrDel(a, ks) == [ x \in (DOMAIN a) \ ks |-> a[x] ]

\* the variables of a file as OOINet delivers it
RawVariables ==
    Bookkeeping \cup { "time", "deployment", "sci", "sci_qc_executed", "sci_qc_results" }

\* the global attributes of a file as OOINet delivers it
RawAttrs ==
    [ k \in UnusedAttrs \cup { "subsite", "cdm_data_type", "featureType" } |->
        CASE k = "subsite" -> "ce01issm"
          [] k = "cdm_data_type" -> "Point"
          [] k = "featureType" -> "point"
          [] OTHER -> "dods" ]

\* ------------------------------------------------------------------------
\* list_files
\* ------------------------------------------------------------------------
\* An anchor of the page: href, and text, the anchor's .string: Some(string)
\* or None when the anchor has no single text child (<a href=..><img/></a>).
\* A pattern is a literal, searched anywhere in the text or, with anchorEnd,
\* only at its end: '' is the empty literal, '\.nc$' the literal .nc at the
\* end.
CatalogPrefix == "catalog.html?dataset="

Anchors ==
    { [ href |-> << CatalogPrefix, "d1.nc" >>, text |-> Some(<< "d1", ".nc" >>) ],
      [ href |-> << CatalogPrefix, "d2.nc" >>, text |-> Some(<< "d2", ".nc" >>) ],
      [ href |-> << CatalogPrefix, "d1.nc.md5" >>,
        text |-> Some(<< "d1", ".nc", ".md5" >>) ],
      [ href |-> << "icon.html" >>, text |-> None ] }

Patterns ==
    { [ lit |-> << >>, anchorEnd |-> FALSE ],
      [ lit |-> << ".nc" >>, anchorEnd |-> TRUE ],
      [ lit |-> << ".nc" >>, anchorEnd |-> FALSE ] }

Pages == UNION { [ 1..n -> Anchors ] : n \in 0..MaxLinks }

\* the catalogs and tags m2m_collect is run on: data files and a checksum
\* file, collected with '' or '\.nc$'
CollectPages ==
    UNION { [ 1..n -> { a \in Anchors : a.text # None } ] : n \in 0..MaxLinks }

CollectPatterns == { t \in Patterns : t.anchorEnd \/ t.lit = << >> }

\* pattern.search(string)
Search(pattern, string) ==
    IF pattern.anchorEnd THEN EndsWith(string, pattern.lit)
                         ELSE Contains(string, pattern.lit)

\* a filter that takes every anchor, whatever its text
MatchesAnyAnchor(pattern, node) == TRUE

\* find_all('a', text=pattern) keeps an anchor when its .string is a string
\* the pattern is found in; an anchor whose .string is None is never kept
Matches(pattern, node) ==
    node.text # None /\ Search(pattern, node.text[1])

RECURSIVE FindAll(_, _)
FindAll(nodes, pattern) ==
    IF nodes = << >> THEN << >>
    ELSE (IF Matches(pattern, Head(nodes)) THEN << Head(nodes) >> ELSE << >>)
         \o FindAll(Tail(nodes), pattern)

list_files(nodes, pattern) ==
    LET found == FindAll(nodes, pattern)
    IN  [ n \in 1..Len(found) |-> found[n].href ]

\* ------------------------------------------------------------------------
\* process_file
\* ------------------------------------------------------------------------
DodsUrl == "https://opendap.oceanobservatories.org/thredds/dodsC/"

\* re.sub('catalog.html\?dataset=', dods_url, catalog_file)
Url(catalog_file) ==
    [ n \in 1..Len(catalog_file) |->
        IF catalog_file[n] = CatalogPrefix THEN DodsUrl ELSE catalog_file[n] ]

\* the row of file f observed at time t
Row(f, t) == [ time |-> t, src |-> f ]

TimeSeqs == UNION { [ 1..n -> 0..MaxTime ] : n \in 0..MaxRows }

\* a file with the given variables and observation times, as loaded
File(url, vs, ts) ==
    [ dim |-> "obs", variables |-> vs,
      rows |-> [ n \in 1..Len(ts) |-> Row(url, ts[n]) ], attrs |-> RawAttrs ]

\* the NetCDF files of the catalog; the checksum file is not one
DataFiles == { "d1.nc", "d2.nc" }

\* what xr.open_dataset(url).load() can yield for a url: None when the file
\* cannot be opened or read as a dataset; for a NetCDF file also a file in
\* the delivered layout, its observations in any order, or a file that
\* lacks a variable of that layout
Loaded(url) ==
    IF url[Len(url)] \in DataFiles
    THEN { None, Some(File(url, RawVariables \ { "id" }, << >>)) } \cup
         { Some(File(url, RawVariables, ts)) : ts \in TimeSeqs }
    ELSE { None }

\* an insertion that puts r last whatever its time
InsertLast(s, r) == Append(s, r)

\* r goes after the rows of s that are not later than it
RECURSIVE Insert(_, _)
Insert(s, r) ==
    IF s = << >> THEN << r >>
    ELSE IF s[Len(s)].time <= r.time THEN Append(s, r)
    ELSE Append(Insert(SubSeq(s, 1, Len(s) - 1), r), s[Len(s)])

\* a stable sort by time
RECURSIVE SortRows(_)
SortRows(s) ==
    IF s = << >> THEN << >>
    ELSE Insert(SortRows(SubSeq(s, 1, Len(s) - 1)), s[Len(s)])

\* ds.sortby('time')
sortby_time(dset) == [ dset EXCEPT !.rows = SortRows(dset.rows) ]

\* ds.swap_dims({'obs': 'time'})
swap_dims(dset) == [ dset EXCEPT !.dim = "time" ]

\* a drop that leaves the provenance id in place
drop_without_id(dset, names) ==
    [ dset EXCEPT !.variables = dset.variables \ (names \ { "id" }) ]

\* ds.drop(names)
drop(dset, names) == [ dset EXCEPT !.variables = dset.variables \ names ]

\* lines 326-339
update_attrs(dset) ==
    LET a1 == AttrSet(AttrSet(dset.attrs, "cdm_data_type", "Station"),
                      "featureType", "timeSeries")
        a2 == AttrDel(a1, UnusedAttrs)
        a3 == AttrSet(a2, "acknowledgement", "National Science Foundation")
        a4 == AttrSet(a3, "comment", "Data collected from the OOI M2M API")
        a5 == AttrSet(a4, "publisher_email", "ooice.platforms@gmail.com")
    IN  [ dset EXCEPT !.attrs = AttrSet(a5, "creator_email", "ooice.platforms@gmail.com") ]

\* swap_dims and drop raise when the dimension or a name is not in the dataset
Normalizable(dset) ==
    /\ dset.dim = "obs"
    /\ "time" \in dset.variables
    /\ Bookkeeping \subseteq dset.variables

\* lines 318-341 for the loaded value xrd: None when the load or a step
\* raises, otherwise the dataset returned
process_file(xrd) ==
    IF xrd = None THEN None
    ELSE IF ~Normalizable(xrd[1]) THEN None
    ELSE Some(update_attrs(sortby_time(drop(swap_dims(xrd[1]), Bookkeeping))))

\* ------------------------------------------------------------------------
\* m2m_collect
\* ------------------------------------------------------------------------
RECURSIVE ConcatRows(_)
ConcatRows(fs) ==
    IF fs = << >> THEN << >> ELSE fs[1].rows \o ConcatRows(Tail(fs))

\* xr.concat(frames, 'time') of a non-empty list
concat(fs) == [ fs[1] EXCEPT !.rows = ConcatRows(fs) ]

CollectInit ==
    /\ pc = "m2m_collect"
    /\ outcome = "running"
    /\ result = None
    /\ tag \in CollectPatterns
    /\ page \in CollectPages
    /\ files = << >>
    /\ frames = << >>
    /\ m2m = None
    /\ rawCounts = << >>
    /\ nfailed = 0
    /\ RequestIdle
    /\ UpdateIdle
    /\ OrderIdle

\* line 281
ListFiles ==
    /\ pc = "m2m_collect"
    /\ files' = list_files(page, tag)
    /\ pc' = "frames"
    /\ UNCHANGED << tag, page, frames, m2m, rawCounts, nfailed, outcome, result >>
    /\ UNCHANGED notCollect

\* a comprehension that leaves out a file it could not process
SkipBadFile(xrd) ==
    /\ files' = SubSeq(files, 1, Len(frames)) \o SubSeq(files, Len(frames) + 2, Len(files))
    /\ nfailed' = nfailed + 1
    /\ UNCHANGED << pc, outcome, frames, rawCounts >>

\* process_file raised: the exception leaves m2m_collect
BadFile(xrd) ==
    /\ nfailed' = nfailed + 1
    /\ pc' = "done"
    /\ outcome' = "raised"
    /\ UNCHANGED << files, frames, rawCounts >>

\* line 284, one element of the comprehension
ProcessFile ==
    /\ pc = "frames"
    /\ Len(frames) < Len(files)
    /\ \E xrd \in Loaded(Url(files[Len(frames) + 1])) :
          IF process_file(xrd) = None
          THEN BadFile(xrd)
          ELSE /\ frames' = Append(frames, process_file(xrd)[1])
               /\ rawCounts' = Append(rawCounts, Len(xrd[1].rows))
               /\ UNCHANGED << pc, outcome, files, nfailed >>
    /\ UNCHANGED << tag, page, m2m, result >>
    /\ UNCHANGED notCollect

\* a merge that concatenates and does not sort
merge_unsorted(fs) == concat(fs)

\* lines 285-286
merge(fs) == sortby_time(concat(fs))

\* lines 285-288: xr.concat raises ValueError on an empty list
Merge ==
    /\ pc = "frames"
    /\ Len(frames) = Len(files)
    /\ pc' = "done"
    /\ IF frames = << >>
       THEN /\ outcome' = "raised"
            /\ UNCHANGED << m2m, result >>
       ELSE /\ m2m' = Some(merge(frames))
            /\ outcome' = "returned"
            /\ result' = Some(merge(frames))
    /\ UNCHANGED << tag, page, files, frames, rawCounts, nfailed >>
    /\ UNCHANGED notCollect

\* list_files called on its own
ListInit ==
    /\ pc = "list_files"
    /\ outcome = "running"
    /\ result = None
    /\ tag \in Patterns
    /\ page \in Pages
    /\ files = << >>
    /\ frames = << >>
    /\ m2m = None
    /\ rawCounts = << >>
    /\ nfailed = 0
    /\ RequestIdle
    /\ UpdateIdle
    /\ OrderIdle

\* lines 299-302
ListFilesCall ==
    /\ pc = "list_files"
    /\ pc' = "done"
    /\ outcome' = "returned"
    /\ result' = Some(list_files(page, tag))
    /\ UNCHANGED collectVars
    /\ UNCHANGED notCollect

ListSpec == ListInit /\ [][ListFilesCall]_vars

CollectNext == ListFiles \/ ProcessFile \/ Merge

CollectSpec == CollectInit /\ [][CollectNext]_vars

\* ------------------------------------------------------------------------
\* m2m_collect, lines 284-286, on one collection of files in two orders
\* ------------------------------------------------------------------------
\* the ways to list k different NetCDF files of the catalog
FileOrders(k) ==
    { fo \in [ 1..k -> DataFiles ] : \A a, b \in 1..k : a # b => fo[a] # fo[b] }

Orderings(k) ==
    { p \in [ 1..k -> 1..k ] : \A a, b \in 1..k : a # b => p[a] # p[b] }

\* line 284 for the files fo holding the observation times tss: the list of
\* the datasets process_file returns
Frames(fo, tss) ==
    [ n \in 1..Len(fo) |->
        process_file(Some(File(Url(<< CatalogPrefix, fo[n] >>), RawVariables, tss[n])))[1] ]

\* the files are processed in one order (frames) and in another (reordered)
OrderInit ==
    /\ pc = "concat"
    /\ outcome = "running"
    /\ result = None
    /\ tag = << >>
    /\ page = << >>
    /\ files = << >>
    /\ \E k \in 1..MaxLinks : \E fo \in FileOrders(k) : \E tss \in [ 1..k -> TimeSeqs ] :
       \E p \in Orderings(k) :
          /\ frames = Frames(fo, tss)
          /\ reordered = [ n \in 1..k |-> Frames(fo, tss)[p[n]] ]
    /\ m2m = None
    /\ m2mReordered = None
    /\ rawCounts = << >>
    /\ nfailed = 0
    /\ RequestIdle
    /\ UpdateIdle

\* lines 285-286 on both lists
MergeBoth ==
    /\ pc = "concat"
    /\ pc' = "done"
    /\ m2m' = Some(merge(frames))
    /\ m2mReordered' = Some(merge(reordered))
    /\ outcome' = "returned"
    /\ result' = Some(merge(frames))
    /\ UNCHANGED << tag, page, files, frames, rawCounts, nfailed, reordered >>
    /\ UNCHANGED << requestVars, updateVars >>

OrderSpec == OrderInit /\ [][MergeBoth]_vars

\* ------------------------------------------------------------------------
\* update_dataset
\* ------------------------------------------------------------------------
\* Here a Dataset is a record: coords, the names of its coordinates;
\* variables, a function from the names in ds.variables to the variable
\* (dims, values, attrs); attrs, the global attributes. The values of a
\* variable along time are a sequence, along (station, time) a one-element
\* sequence holding that sequence, along station a one-element sequence.

\* a bound of the model: the deployment depths tried
MaxDepth == 2

\* 10.0 ** 9
NanosPerSecond == 1000000000

NoAttrs == [ k \in { } |-> "" ]

Variable(dims, values, attrs) == [ dims |-> dims, values |-> values, attrs |-> attrs ]

\* the latitudes and the longitude a dataset can carry
Latitudes == { 44, 45 }

Longitude == -124

\* the observation times of a merged dataset: non-decreasing
SortedTimeSeqs == { ts \in TimeSeqs : \A n \in 1..(Len(ts) - 1) : ts[n] <= ts[n + 1] }

\* a dataset as m2m_collect returns it: times ts, and the latitudes lats
\* either one per observation (loc = "variables") or the first of them as a
\* global attribute (loc = "attributes")
MergedDataset(ts, lats, loc) ==
    LET along(values, attrs) == Variable(<< "time" >>, values, attrs)
        const(v) == [ n \in 1..Len(ts) |-> v ]
        names == { "time", "deployment", "sci", "sci_qc_executed", "sci_qc_results" }
                 \cup (IF loc = "variables" THEN { "lat", "lon" } ELSE { })
        globals == update_attrs([ attrs |-> RawAttrs ]).attrs
    IN  [ coords |-> { "time" },
          variables |->
            [ k \in names |->
                CASE k = "time" -> along(ts, NoAttrs)
                  [] k = "deployment" -> along(const(1), NoAttrs)
                  [] k = "sci" ->
                       along(const(10), [ a \in { "standard_name" } |-> "sea_water_temperature" ])
                  [] k = "sci_qc_executed" -> along(const(29), NoAttrs)
                  [] k = "sci_qc_results" -> along(const(285), NoAttrs)
                  [] k = "lat" -> along(lats, NoAttrs)
                  [] k = "lon" -> along(const(Longitude), NoAttrs) ],
          attrs |->
            IF loc = "attributes"
            THEN AttrSet(AttrSet(globals, "lat", lats[1]), "lon", Longitude)
            ELSE globals ]

\* the datasets update_dataset is called with: a latitude per observation,
\* one latitude as a global attribute, or no position at all
UpdateInputs ==
    UNION { { MergedDataset(ts, lats, "variables") : lats \in [ 1..Len(ts) -> Latitudes ] }
            \cup { MergedDataset(ts, << la >>, "attributes") : la \in Latitudes }
            \cup { MergedDataset(ts, << >>, "nowhere") } : ts \in SortedTimeSeqs }

SetVariable(d, k, v) ==
    [ d EXCEPT !.variables =
        [ x \in (DOMAIN d.variables) \cup {k} |-> IF x = k THEN v ELSE d.variables[x] ] ]

SetVarAttr(d, k, a, v) ==
    [ d EXCEPT !.variables[k].attrs = AttrSet(d.variables[k].attrs, a, v) ]

\* str.upper() of the subsite
Upper(str) == IF str = "ce01issm" THEN "CE01ISSM" ELSE str

StationAttrs(d) ==
    [ a \in { "cf_role", "long_name", "comment" } |->
        CASE a = "cf_role" -> "timeseries_id"
          [] a = "long_name" -> "Station Identifier"
          [] a = "comment" -> Upper(d.attrs["subsite"]) ]

\* ds.coords['station'] = 0: the scalar coordinate is added to the object
\* itself
set_station(d) ==
    [ SetVariable(d, "station", Variable(<< >>, 0, NoAttrs))
        EXCEPT !.coords = d.coords \cup { "station" } ]

\* ds.expand_dims('station'): a new Dataset; the scalar coordinate station
\* becomes the index of the new dimension, the other coordinates are kept,
\* every data variable gets the new dimension in front
expand_dims(d) ==
    [ d EXCEPT !.variables =
        [ k \in DOMAIN d.variables |->
            IF k = "station"
            THEN Variable(<< "station" >>, << d.variables[k].values >>, d.variables[k].attrs)
            ELSE IF k \in d.coords THEN d.variables[k]
            ELSE Variable(<< "station" >> \o d.variables[k].dims,
                          << d.variables[k].values >>, d.variables[k].attrs) ] ]

UpdateInit ==
    /\ pc = "update_dataset"
    /\ outcome = "running"
    /\ result = None
    /\ callerDs \in { Some(d) : d \in UpdateInputs }
    /\ callerBefore = callerDs
    /\ ds = None
    /\ depth \in 1..MaxDepth
    /\ lat = None
    /\ lon = None
    /\ geo_coords = None
    /\ atMerge = None
    /\ RequestIdle
    /\ CollectIdle
    /\ OrderIdle

\* line 354
SetStation ==
    /\ pc = "update_dataset"
    /\ callerDs' = Some(set_station(callerDs[1]))
    /\ pc' = "expand_dims"
    /\ UNCHANGED << callerBefore, ds, depth, lat, lon, geo_coords, atMerge, outcome, result >>
    /\ UNCHANGED notUpdate

\* lines 355-360: ds is rebound to the expanded copy
ExpandDims ==
    /\ pc = "expand_dims"
    /\ ds' = Some([ expand_dims(callerDs[1])
                      EXCEPT !.variables["station"].attrs = StationAttrs(callerDs[1]) ])
    /\ pc' = "location"
    /\ UNCHANGED << callerDs, callerBefore, depth, lat, lon, geo_coords, atMerge,
                    outcome, result >>
    /\ UNCHANGED notUpdate

\* lines 363-371. With lat a variable, values[0][0] raises IndexError on a
\* dataset without observations; line 366, ds.drop(['lat', 'lon']), builds a
\* new Dataset and binds it to nothing, so ds is as it was. Without the
\* variable, a missing attribute raises KeyError.
Location ==
    /\ pc = "location"
    /\ IF "lat" \in DOMAIN ds[1].variables
       THEN IF Len(ds[1].variables["lat"].values[1]) = 0
            THEN /\ pc' = "done"
                 /\ outcome' = "raised"
                 /\ UNCHANGED << lat, lon, ds >>
            ELSE /\ lat' = Some(ds[1].variables["lat"].values[1][1])
                 /\ lon' = Some(ds[1].variables["lon"].values[1][1])
                 /\ pc' = "geo_coords"
                 /\ UNCHANGED << ds, outcome >>
       ELSE IF "lat" \notin DOMAIN ds[1].attrs
            THEN /\ pc' = "done"
                 /\ outcome' = "raised"
                 /\ UNCHANGED << lat, lon, ds >>
            ELSE /\ lat' = Some(ds[1].attrs["lat"])
                 /\ lon' = Some(ds[1].attrs["lon"])
                 /\ ds' = Some([ ds[1] EXCEPT !.attrs = AttrDel(ds[1].attrs, { "lat", "lon" }) ])
                 /\ pc' = "geo_coords"
                 /\ UNCHANGED outcome
    /\ UNCHANGED << callerDs, callerBefore, depth, geo_coords, atMerge, result >>
    /\ UNCHANGED notUpdate

\* the attributes of lines 380-408
GeoAttrs(d, k) ==
    CASE k = "station" -> StationAttrs(d)
      [] k = "lon" ->
           [ a \in { "long_name", "standard_name", "units", "axis", "comment" } |->
               CASE a = "long_name" -> "Longitude"
                 [] a = "standard_name" -> "longitude"
                 [] a = "units" -> "degrees_east"
                 [] a = "axis" -> "X"
                 [] a = "comment" -> "Deployment location" ]
      [] k = "lat" ->
           [ a \in { "long_name", "standard_name", "units", "axis", "comment" } |->
               CASE a = "long_name" -> "Latitude"
                 [] a = "standard_name" -> "latitude"
                 [] a = "units" -> "degrees_north"
                 [] a = "axis" -> "Y"
                 [] a = "comment" -> "Deployment location" ]
      [] k = "z" ->
           [ a \in { "long_name", "standard_name", "units", "comment", "positive", "axis" } |->
               CASE a = "long_name" -> "Depth"
                 [] a = "standard_name" -> "depth"
                 [] a = "units" -> "m"
                 [] a = "comment" -> "Instrument deployment depth"
                 [] a = "positive" -> "down"
                 [] a = "axis" -> "Z" ]

\* lines 374-410
GeoCoords ==
    /\ pc = "geo_coords"
    /\ geo_coords' =
         Some([ coords |-> { "station" },
                variables |->
                  [ k \in { "lat", "lon", "z", "station" } |->
                      Variable(<< "station" >>,
                               CASE k = "lat" -> << lat[1] >>
                                 [] k = "lon" -> << lon[1] >>
                                 [] k = "z" -> << depth >>
                                 [] k = "station" -> << 0 >>,
                               GeoAttrs(ds[1], k)) ],
                attrs |-> NoAttrs ])
    /\ pc' = "merge"
    /\ UNCHANGED << callerDs, callerBefore, ds, depth, lat, lon, atMerge, outcome, result >>
    /\ UNCHANGED notUpdate

\* the values of a variable, broadcast against a (station, time) variable of
\* n observations
Broadcast(v, n) ==
    IF v.dims = << "station" >> THEN << [ x \in 1..n |-> v.values[1] ] >> ELSE v.values

\* two variables of the same name do not conflict when they are equal after
\* broadcasting against each other
NoConflict(v, w) ==
    \/ v.dims = w.dims /\ v.values = w.values
    \/ /\ v.dims = << "station", "time" >>
       /\ w.dims = << "station" >>
       /\ v.values = Broadcast(w, Len(v.values[1]))

Mergeable(d, g) ==
    \A k \in (DOMAIN d.variables) \cap (DOMAIN g.variables) :
        NoConflict(d.variables[k], g.variables[k])

\* ds.merge(geo_coords) when nothing conflicts: a name in both keeps the
\* variable of ds, which already has the broadcast shape
merge_datasets(d, g) ==
    [ d EXCEPT !.variables =
                 [ k \in (DOMAIN d.variables) \cup (DOMAIN g.variables) |->
                     IF k \in DOMAIN d.variables THEN d.variables[k] ELSE g.variables[k] ],
               !.coords = d.coords \cup g.coords ]

\* line 413: MergeError when a variable of ds conflicts with geo_coords
MergeGeo ==
    /\ pc = "merge"
    /\ atMerge' = ds
    /\ IF Mergeable(ds[1], geo_coords[1])
       THEN /\ ds' = Some(merge_datasets(ds[1], geo_coords[1]))
            /\ pc' = "coordinates"
            /\ UNCHANGED outcome
       ELSE /\ pc' = "done"
            /\ outcome' = "raised"
            /\ UNCHANGED ds
    /\ UNCHANGED << callerDs, callerBefore, depth, lat, lon, geo_coords, result >>
    /\ UNCHANGED notUpdate

\* lines 416-422
Coordinates ==
    /\ pc = "coordinates"
    /\ LET tagged ==
             [ ds[1] EXCEPT !.variables =
                 [ k \in DOMAIN ds[1].variables |->
                     IF k \in { "time", "lat", "lon", "z", "station" }
                     THEN ds[1].variables[k]
                     ELSE [ ds[1].variables[k] EXCEPT !.attrs =
                              AttrSet(ds[1].variables[k].attrs, "coordinates",
                                      "time lon lat z") ] ] ]
       IN  ds' = Some(SetVarAttr(tagged, "deployment", "long_name", "Deployment Number"))
    /\ pc' = "qc"
    /\ UNCHANGED << callerDs, callerBefore, depth, lat, lon, geo_coords, atMerge,
                    outcome, result >>
    /\ UNCHANGED notUpdate

\* np.uint8(x)
Uint8(x) == x % 256

\* re.sub('Qc', 'QC', re.sub('_', ' ', v.title()))
LongName(v) ==
    CASE v = "sci_qc_executed" -> "Sci QC Executed"
      [] v = "sci_qc_results" -> "Sci QC Results"

\* lines 429-454 for one QC variable v: the values become bytes along
\* (station, time) in a new variable, which then gets its attributes
RecodedQC(d, v) ==
    LET executed == v = "sci_qc_executed"
        values == d.variables[v].values[1]
        keys == { "long_name", "flag_masks", "flag_meanings", "comment",
                  "ancillary_variables" }
                \cup (IF "standard_name" \in DOMAIN d.variables["sci"].attrs
                      THEN { "standard_name" } ELSE { })
    IN  Variable(<< "station", "time" >>,
                 << [ n \in 1..Len(values) |-> Uint8(values[n]) ] >>,
                 [ a \in keys |->
                     CASE a = "long_name" -> << LongName(v) >>
                       [] a = "flag_masks" -> << 1, 2, 4, 8, 16, 32, 64, 128 >>
                       [] a = "flag_meanings" ->
                            IF executed
                            THEN << "global_range_test", "local_range_test", "spike_test",
                                    "poly_trend_test", "stuck_value_test", "gradient_test",
                                    "propogate_flags" >>
                            ELSE << "global_range_test_passed", "local_range_test_passed",
                                    "spike_test_passed", "poly_trend_test_passed",
                                    "stuck_value_test_passed", "gradient_test_passed",
                                    "all_tests_passed" >>
                       [] a = "comment" ->
                            IF executed THEN << "Automated QC tests executed" >>
                                        ELSE << "QC result flags" >>
                       [] a = "ancillary_variables" -> << "sci" >>
                       [] a = "standard_name" ->
                            << d.variables["sci"].attrs["standard_name"],
                               IF executed THEN " qc_tests_executed" ELSE " qc_tests_results" >> ])

\* lines 423-454
RecodeQC ==
    /\ pc = "qc"
    /\ ds' = Some(SetVariable(
                    SetVariable(ds[1], "sci_qc_executed", RecodedQC(ds[1], "sci_qc_executed")),
                    "sci_qc_results", RecodedQC(ds[1], "sci_qc_results")))
    /\ pc' = "time"
    /\ UNCHANGED << callerDs, callerBefore, depth, lat, lon, geo_coords, atMerge,
                    outcome, result >>
    /\ UNCHANGED notUpdate

\* lines 470-479: nanoseconds as a float, divided by 10.0 ** 9 (the quotient
\* is kept as numerator and denominator)
dt64_epoch(values) ==
    [ n \in 1..Len(values) |-> [ num |-> values[n], den |-> NanosPerSecond ] ]

TimeAttrs ==
    [ a \in { "long_name", "standard_name", "units", "axis", "calendar" } |->
        CASE a = "long_name" -> "Time"
          [] a = "standard_name" -> "time"
          [] a = "units" -> "seconds since 1970-01-01 00:00:00 0:00"
          [] a = "axis" -> "T"
          [] a = "calendar" -> "gregorian" ]

\* lines 457-467
ConvertTime ==
    /\ pc = "time"
    /\ ds' = Some(SetVariable(ds[1], "time",
                    Variable(<< "time" >>, dt64_epoch(ds[1].variables["time"].values),
                             TimeAttrs)))
    /\ pc' = "done"
    /\ outcome' = "returned"
    /\ result' = ds'
    /\ UNCHANGED << callerDs, callerBefore, depth, lat, lon, geo_coords, atMerge >>
    /\ UNCHANGED notUpdate

UpdateNext ==
    SetStation \/ ExpandDims \/ Location \/ GeoCoords \/ MergeGeo \/ Coordinates
    \/ RecodeQC \/ ConvertTime

UpdateSpec == UpdateInit /\ [][UpdateNext]_vars

\* ------------------------------------------------------------------------
\* Properties of update_dataset
\* ------------------------------------------------------------------------
\* C8: update_dataset does not mutate the dataset it is given: after the
\* call the dataset the caller holds has the coordinates, variables and
\* attributes it had before, and the changes are in the returned dataset
\* only.
C8_InputNotMutated ==
    (outcome = "returned" /\ callerBefore # None) => callerDs = callerBefore

\* C9: once latitude and longitude have been extracted their source is gone
\* from the dataset: neither the lat/lon variables nor the lat/lon global
\* attributes are in ds when geo_coords is merged in, and the returned
\* dataset has lat and lon only as variables along the station dimension.
C9_SourceRemoved ==
    /\ atMerge # None =>
          /\ { "lat", "lon" } \cap DOMAIN atMerge[1].variables = { }
          /\ { "lat", "lon" } \cap DOMAIN atMerge[1].attrs = { }
    /\ (outcome = "returned" /\ callerBefore # None) =>
          /\ result[1].variables["lat"].dims = << "station" >>
          /\ result[1].variables["lon"].dims = << "station" >>
          /\ { "lat", "lon" } \cap DOMAIN result[1].attrs = { }

\* ------------------------------------------------------------------------
\* Properties of list_files, process_file and m2m_collect
\* ------------------------------------------------------------------------
NonDecreasing(rows) ==
    \A n \in 1..(Len(rows) - 1) : rows[n].time <= rows[n + 1].time

RECURSIVE SumSeq(_)
SumSeq(ns) == IF ns = << >> THEN 0 ELSE ns[1] + SumSeq(Tail(ns))

\* how often row r occurs in rows
Count(rows, r) == Cardinality({ n \in 1..Len(rows) : rows[n] = r })

RECURSIVE CountAll(_, _)
CountAll(fs, r) ==
    IF fs = << >> THEN 0 ELSE Count(fs[1].rows, r) + CountAll(Tail(fs), r)

RowsOf(fs) == UNION { { fs[j].rows[n] : n \in 1..Len(fs[j].rows) } : j \in 1..Len(fs) }

\* C5: for a non-empty list of per-file datasets the dataset m2m_collect
\* returns has a non-decreasing time coordinate and holds as many rows as
\* the input files together, every row as often as the files hold it.
C5_MergedSortedComplete ==
    m2m # None =>
        /\ NonDecreasing(m2m[1].rows)
        /\ Len(m2m[1].rows) = SumSeq(rawCounts)
        /\ \A r \in RowsOf(frames) : Count(m2m[1].rows, r) = CountAll(frames, r)

\* two files of two rows each over the same time range [0, 1] were merged
\* into four rows
C5_Witness ==
    /\ m2m # None
    /\ rawCounts = << 2, 2 >>
    /\ frames[1].rows[1].src # frames[2].rows[1].src
    /\ frames[1].rows[2].time > frames[2].rows[1].time
    /\ frames[1].rows[1].time = frames[2].rows[1].time
    /\ Len(m2m[1].rows) = 4

\* the pattern is found in the text: some run of the text equals the
\* pattern's literal, and ends the text when the pattern is anchored
FoundIn(pattern, text) ==
    \E a \in 1..(Len(text) + 1) : \E b \in (a - 1)..Len(text) :
        /\ SubSeq(text, a, b) = pattern.lit
        /\ pattern.anchorEnd => b = Len(text)

\* the references of the page's anchors that satisfy Keep, in page order
Refs(Keep(_)) ==
    LET kept == SelectSeq(page, Keep)
    IN  [ n \in 1..Len(kept) |-> kept[n].href ]

TextMatches(a) == a.text # None /\ FoundIn(tag, a.text[1])

AnyLink(a) == TRUE

HasText(a) == a.text # None

EmptyPattern == tag.lit = << >> /\ ~tag.anchorEnd

\* C6 as stated: list_files returns, in page order, the references of
\* exactly the anchors whose link text matches the pattern; with the empty
\* pattern it returns every link on the page.
C6_AsStated ==
    (pc = "done" /\ outcome = "returned") =>
        /\ result[1] = Refs(TextMatches)
        /\ EmptyPattern => result[1] = Refs(AnyLink)

\* C6, amended: list_files returns, in page order, the references of exactly
\* the anchors whose link text matches the pattern; with the empty pattern
\* it returns every link on the page that has a link text.
C6_ListFiles ==
    (pc = "done" /\ outcome = "returned") =>
        /\ result[1] = Refs(TextMatches)
        /\ EmptyPattern => result[1] = Refs(HasText)

\* the empty pattern on a page with a data file link and a link without
\* text: the data file alone is returned
C6_Witness ==
    /\ pc = "done"
    /\ EmptyPattern
    /\ Len(page) = 2
    /\ page[1].text = None
    /\ page[2].text = Some(<< "d1", ".nc" >>)
    /\ result = Some(<< page[2].href >>)

\* C7: m2m_collect returns a merged dataset only when at least one catalog
\* entry matched and every matched file was loaded and normalized; with no
\* match, or with one matched file failing, it raises and returns nothing.
C7_NoPartialSuccess ==
    /\ (outcome = "returned" \/ m2m # None) =>
          /\ files = Refs(TextMatches)
          /\ Len(files) >= 1
          /\ Len(frames) = Len(files)
          /\ nfailed = 0
          /\ result = m2m
          /\ Len(m2m[1].rows) = SumSeq(rawCounts)
    /\ (pc = "done" /\ (Refs(TextMatches) = << >> \/ nfailed > 0)) =>
          /\ outcome = "raised"
          /\ m2m = None
          /\ result = None

\* the second of two matched files failed after the first was normalized:
\* the call raised
C7_Witness ==
    /\ pc = "done"
    /\ outcome = "raised"
    /\ Len(files) = 2
    /\ Len(frames) = 1
    /\ nfailed = 1
    /\ m2m = None

\* C10: a dataset returned by process_file holds none of obs, id,
\* driver_timestamp, ingestion_timestamp, port_timestamp,
\* preferred_timestamp, runs along time instead of obs, and has as many rows
\* as the input file.
C10_NormalizedFile ==
    \A j \in 1..Len(frames) :
        /\ frames[j].variables \cap
             { "obs", "id", "driver_timestamp", "ingestion_timestamp",
               "port_timestamp", "preferred_timestamp" } = { }
        /\ frames[j].dim = "time"
        /\ "time" \in frames[j].variables
        /\ Len(frames[j].rows) = rawCounts[j]

\* a file of two observations has been normalized
C10_Witness ==
    /\ Len(frames) >= 1
    /\ rawCounts[1] = 2
    /\ frames[1].dim = "time"
    /\ "id" \notin frames[1].variables

\* ------------------------------------------------------------------------
\* Properties of the processing order
\* ------------------------------------------------------------------------
TimesOf(rows) == [ n \in 1..Len(rows) |-> rows[n].time ]

\* two different files hold an observation of the same time
CrossFileTie(fs) ==
    \E a, b \in 1..Len(fs) :
        /\ a # b
        /\ \E m \in 1..Len(fs[a].rows) : \E n \in 1..Len(fs[b].rows) :
              fs[a].rows[m].time = fs[b].rows[n].time

\* C11 as stated: for two orderings of the same collection of files,
\* concatenate-then-sort yields the same sequence of observation rows.
C11_AsStated ==
    m2mReordered # None => m2m[1].rows = m2mReordered[1].rows

\* C11, amended: for two orderings of the same collection of files,
\* concatenate-then-sort yields the same time coordinate and every row as
\* often in the one as in the other; the sequence of rows is the same when no
\* two files hold an observation of the same time.
C11_OrderIndependence ==
    m2mReordered # None =>
        /\ TimesOf(m2m[1].rows) = TimesOf(m2mReordered[1].rows)
        /\ \A r \in RowsOf(frames) :
              Count(m2m[1].rows, r) = Count(m2mReordered[1].rows, r)
        /\ ~CrossFileTie(frames) => m2m[1].rows = m2mReordered[1].rows

\* two files without a common time, the later one first in one order and
\* second in the other, merged into the same rows
C11_Witness ==
    /\ m2mReordered # None
    /\ Len(frames) = 2
    /\ reordered = << frames[2], frames[1] >>
    /\ Len(frames[1].rows) = 2
    /\ Len(frames[2].rows) = 2
    /\ ~CrossFileTie(frames)
    /\ frames[1].rows[1].time > frames[2].rows[2].time
    /\ m2m[1].rows = m2mReordered[1].rows

====
